---- MODULE Spec2Model ----
(***************************************************************************)
(* Model of apps/ui-tars/src/main/services/httpServer.ts: the HTTP control *)
(* service (HttpServerService) that starts, stops and queries agent runs   *)
(* through the process-wide run-state store.                               *)
(*                                                                         *)
(* Node runs every callback to completion on one thread, so each action    *)
(* below is one event-loop turn: the synchronous part of handleRequest,    *)
(* the 'end' callback of a /run body, a settlement callback of runAgent,   *)
(* one write of the agent runner, one setConfig call, one listener event.  *)
(*                                                                         *)
(* Optional values (null / undefined in the source) are sequences of       *)
(* length at most one: <<>> is "absent", <<v>> is "v".                     *)
(***************************************************************************)
EXTENDS Integers, Sequences, FiniteSets, TLC

\* ------------------------------------------------------------------ bounds

MaxReq == 2          \* requests of any kind received in one behaviour (Spec)
MaxSetConfig == 1    \* setConfig calls in one behaviour (Spec)
MaxRunReq == 3       \* /run and /stop requests in one behaviour (SpecRun)
MaxMsgs == 1         \* transcript entries appended by the runner
MaxCalls == 3        \* setConfig, start and stop calls in one behaviour
                     \* (SpecConfig)
MaxProbes == 1       \* GET /health probes in one behaviour (SpecConfig)
MaxFairReq == 2      \* /run and /stop requests in one behaviour
                     \* (SpecRunFair)
MaxReKeys == 1       \* setConfig calls that replace the key (SpecKey)
MaxKeyReq == 2       \* requests received in one behaviour (SpecKey)

\* ------------------------------------------------------- program constants

DefaultPort == 9527

\* -------------------------------------------------------------- input sets

None == <<>>
Some(v) == <<v>>

Methods == {"GET", "POST", "OPTIONS"}
Urls == {"/health", "/status", "/run", "/stop", "/other"}
Keys == {"k1", "k2"}
\* the X-API-Key header of a request: absent, or a value
HeaderKeys == {None} \cup {Some(k) : k \in Keys}
\* config.apiKey: undefined, the empty string, or a key
ConfigKeys == {None, Some("")} \cup {Some(k) : k \in Keys}
\* the lowest port the settings form accepts
MinPort == 1024
Ports == {DefaultPort, MinPort}
Hosts == {"127.0.0.1", "0.0.0.0"}
ErrorMessages == {"boom", "bang"}

\* request bodies of POST /run, as the text the 'data' chunks add up to
Bodies ==
    { "", "{", "null", "5", "{}",
      "{\"instructions\":\"\"}", "{\"instructions\":5}",
      "{\"instructions\":\"a\"}", "{\"instructions\":\"b\"}" }

\* StatusEnum values the store can hold
StatusIdle == "IDLE"
StatusRunning == "RUNNING"
StatusEnd == "END"
StatusError == "ERROR"
RunnerStatuses == {StatusRunning, StatusEnd, StatusError}

\* ---------------------------------------------------------------- JS values

\* a JavaScript value: its typeof-like tag and its text
JsUndefined == [t |-> "undefined", v |-> ""]
JsString(s) == [t |-> "string", v |-> s]
JsNumber(s) == [t |-> "number", v |-> s]

\* JSON_parse, were a text that does not parse read as an empty object
JSON_parse_Lenient(text) ==
    CASE text = "null" -> [t |-> "null", instructions |-> JsUndefined]
      [] text = "5" -> [t |-> "number", instructions |-> JsUndefined]
      [] text = "{\"instructions\":\"\"}" ->
            [t |-> "object", instructions |-> JsString("")]
      [] text = "{\"instructions\":5}" ->
            [t |-> "object", instructions |-> JsNumber("5")]
      [] text = "{\"instructions\":\"a\"}" ->
            [t |-> "object", instructions |-> JsString("a")]
      [] text = "{\"instructions\":\"b\"}" ->
            [t |-> "object", instructions |-> JsString("b")]
      [] OTHER -> [t |-> "object", instructions |-> JsUndefined]

\* JSON.parse on the texts of Bodies: a SyntaxError, or the parsed value
\* (for an object, the value of its instructions property)
JSON_parse(text) ==
    CASE text = "null" -> [t |-> "null", instructions |-> JsUndefined]
      [] text = "5" -> [t |-> "number", instructions |-> JsUndefined]
      [] text = "{}" -> [t |-> "object", instructions |-> JsUndefined]
      [] text = "{\"instructions\":\"\"}" ->
            [t |-> "object", instructions |-> JsString("")]
      [] text = "{\"instructions\":5}" ->
            [t |-> "object", instructions |-> JsNumber("5")]
      [] text = "{\"instructions\":\"a\"}" ->
            [t |-> "object", instructions |-> JsString("a")]
      [] text = "{\"instructions\":\"b\"}" ->
            [t |-> "object", instructions |-> JsString("b")]
      [] OTHER -> [t |-> "SyntaxError", instructions |-> JsUndefined]

\* const { instructions, sessionId } = data throws a TypeError on null
DestructureThrows(data) == data.t = "null"

\* !x of JavaScript
Falsy(x) ==
    \/ x.t \in {"undefined", "null"}
    \/ x.t = "string" /\ x.v = ""
    \/ x.t = "number" /\ x.v = "0"

\* the 400 test: !instructions || typeof instructions !== 'string'
InvalidInstructions(x) == Falsy(x) \/ x.t # "string"

\* ------------------------------------------------------------------- state

VARIABLES
    config,      \* HttpServerService.config
    server,      \* HttpServerService.server: None, or the listener
    closing,     \* the listeners stop() has closed whose close callback is
                 \* still to come
    nSrv,        \* listeners created so far by http.createServer
    runState,    \* the store's state (RunState)
    aborted,     \* the AbortControllers whose abort() has been called
    nextCtl,     \* identity of the next AbortController constructed
    runs,        \* the runAgent invocations, in invocation order, each with
                 \* the handle it read from the store when invoked
    pending,     \* /run requests whose body is being read: {[req, body]}
    resps,       \* per /run request id, the status codes sent on its response
    nReq,        \* requests received so far
    nCfg,        \* setConfig calls so far
    racing,      \* the /run requests whose body was being read when the latest
                 \* run was accepted, no /stop or settlement having come since
    last         \* the step just taken: its inputs, response and effects

vars == <<config, server, closing, nSrv, runState, aborted, nextCtl, runs,
          pending, resps, nReq, nCfg, racing, last>>

DEFAULT_CONFIG ==
    [enabled |-> FALSE, port |-> DefaultPort, host |-> "127.0.0.1",
     apiKey |-> None]

\* the store's state before any run
InitialRunState ==
    [status |-> StatusIdle, thinking |-> FALSE, instructions |-> "",
     errorMsg |-> None, messages |-> 0, abortController |-> None]

\* store.setState(partial): shallow merge
setState(st, partial) ==
    [f \in DOMAIN st |-> IF f \in DOMAIN partial THEN partial[f] ELSE st[f]]

NoPayload == [none |-> TRUE]

\* the argument {} of setConfig: no property named
NoPartial == [enabled |-> None, port |-> None, host |-> None, apiKey |-> None]

\* the record of a step; repeat says that the step is a /stop handled
\* right after another /stop
Step(op) ==
    [op |-> op, req |-> 0, method |-> "", url |-> "", key |-> None,
     body |-> "", code |-> 0, payload |-> NoPayload, run |-> 0,
     raced |-> FALSE, partial |-> NoPartial, effects |-> <<>>,
     repeat |-> FALSE]

Init ==
    /\ config = DEFAULT_CONFIG
    /\ server = None
    /\ closing = {}
    /\ nSrv = 0
    /\ runState = InitialRunState
    /\ aborted = {}
    /\ nextCtl = 1
    /\ runs = <<>>
    /\ pending = {}
    /\ resps = [r \in {} |-> <<>>]
    /\ nReq = 0
    /\ nCfg = 0
    /\ racing = {}
    /\ last = Step("init")

\* ---------------------------------------------------- listener lifecycle

\* start, were it to wait for a pending close on the same host and port
start_AwaitClose(cfg, srv) ==
    IF srv # None THEN srv
    ELSE IF ~cfg.enabled THEN srv
    ELSE IF \E l \in closing : l.host = cfg.host /\ l.port = cfg.port
    THEN srv
    ELSE Some([id |-> nSrv + 1, host |-> cfg.host, port |-> cfg.port,
               state |-> "binding"])

\* start, were a listener created over the one that exists
start_Rebind(cfg, srv) ==
    IF ~cfg.enabled THEN srv
    ELSE Some([id |-> nSrv + 1, host |-> cfg.host, port |-> cfg.port,
               state |-> "binding"])

\* start, were the enabled flag not looked at
start_IgnoresDisabled(cfg, srv) ==
    IF srv # None THEN srv
    ELSE Some([id |-> nSrv + 1, host |-> cfg.host, port |-> cfg.port,
               state |-> "binding"])

\* start(): the value of this.server afterwards
start(cfg, srv) ==
    IF srv # None THEN srv                       \* already running: warn
    ELSE IF ~cfg.enabled THEN srv                \* disabled: info
    ELSE Some([id |-> nSrv + 1, host |-> cfg.host, port |-> cfg.port,
               state |-> "binding"])

\* stop, were the handle kept until the close callback
stop_KeepHandle(srv) == srv

\* stop(): close() is asked for and the handle is dropped at once
stop(srv) == None

\* the listeners whose close() has just been asked for by stop() on srv
Closed(srv) == {srv[i] : i \in DOMAIN srv}

\* the count of listeners created, after a call that left the handle as after
Created(after) ==
    IF after # None /\ after # server THEN nSrv + 1 ELSE nSrv

\* MergeConfig, were the properties the partial leaves out reset to the
\* defaults
MergeConfig_Replace(cfg, partial) ==
    [enabled |-> IF partial.enabled = None THEN DEFAULT_CONFIG.enabled
                 ELSE partial.enabled[1],
     port |-> IF partial.port = None THEN DEFAULT_CONFIG.port
              ELSE partial.port[1],
     host |-> IF partial.host = None THEN DEFAULT_CONFIG.host
              ELSE partial.host[1],
     apiKey |-> IF partial.apiKey = None THEN DEFAULT_CONFIG.apiKey
                ELSE partial.apiKey[1]]

\* MergeConfig, were a key, once configured, kept
MergeConfig_KeyOnce(cfg, partial) ==
    [enabled |-> IF partial.enabled = None THEN cfg.enabled
                 ELSE partial.enabled[1],
     port |-> IF partial.port = None THEN cfg.port ELSE partial.port[1],
     host |-> IF partial.host = None THEN cfg.host ELSE partial.host[1],
     apiKey |-> IF partial.apiKey = None \/ cfg.apiKey # None
                THEN cfg.apiKey ELSE partial.apiKey[1]]

\* { ...this.config, ...config }: a property the partial names (Some) wins
MergeConfig(cfg, partial) ==
    [enabled |-> IF partial.enabled = None THEN cfg.enabled
                 ELSE partial.enabled[1],
     port |-> IF partial.port = None THEN cfg.port ELSE partial.port[1],
     host |-> IF partial.host = None THEN cfg.host ELSE partial.host[1],
     apiKey |-> IF partial.apiKey = None THEN cfg.apiKey
                ELSE partial.apiKey[1]]

\* getConfig(): the configuration in memory
getConfig == config

\* the Partial<HttpServerConfig> arguments of setConfig
Partials ==
    [enabled : {None, Some(TRUE), Some(FALSE)},
     port : {None} \cup {Some(p) : p \in Ports},
     host : {None} \cup {Some(h) : h \in Hosts},
     apiKey : {None} \cup {Some(k) : k \in ConfigKeys}]

\* the partials that name neither port nor host
KeyPartials == {p \in Partials : p.port = None /\ p.host = None}

setConfig(partial) ==
    /\ LET merged == MergeConfig(config, partial)
       IN /\ config' = merged
          /\ IF server # None /\ ~merged.enabled
             THEN /\ server' = stop(server)
                  /\ closing' = closing \cup Closed(server)
             ELSE IF server = None /\ merged.enabled
             THEN /\ server' = start(merged, server)
                  /\ closing' = closing
             ELSE UNCHANGED <<server, closing>>
    /\ nSrv' = Created(server')
    /\ nCfg' = nCfg + 1
    /\ last' = [Step("setConfig") EXCEPT !.partial = partial]
    /\ UNCHANGED <<runState, aborted, nextCtl, runs, pending, resps, nReq,
                   racing>>

\* start() called on the service by the application
callStart ==
    /\ server' = start(config, server)
    /\ nSrv' = Created(server')
    /\ nCfg' = nCfg + 1
    /\ last' = Step("start")
    /\ UNCHANGED <<config, closing, runState, aborted, nextCtl, runs, pending,
                   resps, nReq, racing>>

\* stop() called on the service by the application
callStop ==
    /\ server' = IF server # None THEN stop(server) ELSE server
    /\ closing' = closing \cup Closed(server)
    /\ nCfg' = nCfg + 1
    /\ last' = Step("stop")
    /\ UNCHANGED <<config, nSrv, runState, aborted, nextCtl, runs, pending,
                   resps, nReq, racing>>

\* the callback of server.close(): the closed listener has let go
CloseDone(l) ==
    /\ l \in closing
    /\ closing' = closing \ {l}
    /\ last' = Step("closed")
    /\ UNCHANGED <<config, server, nSrv, runState, aborted, nextCtl, runs,
                   pending, resps, nReq, nCfg, racing>>

\* the listen callback: the bind succeeded
ListenOk ==
    /\ server # None
    /\ server[1].state = "binding"
    /\ server' = Some([server[1] EXCEPT !.state = "listening"])
    /\ last' = Step("listening")
    /\ UNCHANGED <<config, closing, nSrv, runState, aborted, nextCtl, runs,
                   pending, resps, nReq, nCfg, racing>>

\* ListenError, were the handle dropped when the bind fails
ListenError_DropsHandle ==
    /\ server # None
    /\ server[1].state = "binding"
    /\ server' = None
    /\ last' = Step("error")
    /\ UNCHANGED <<config, closing, nSrv, runState, aborted, nextCtl, runs,
                   pending, resps, nReq, nCfg, racing>>

\* the 'error' event: the bind failed; it is logged and nothing else
ListenError ==
    /\ server # None
    /\ server[1].state = "binding"
    /\ server' = Some([server[1] EXCEPT !.state = "error"])
    /\ last' = Step("error")
    /\ UNCHANGED <<config, closing, nSrv, runState, aborted, nextCtl, runs,
                   pending, resps, nReq, nCfg, racing>>

Listening == server # None /\ server[1].state = "listening"

\* ------------------------------------------------------- request handling

\* if (this.config.apiKey): undefined and '' are falsy, so no key is asked
ApiKeyConfigured(cfg) == cfg.apiKey # None /\ cfg.apiKey # Some("")

\* Unauthorized, were a request without the header let through
Unauthorized_AbsentPasses(cfg, key) ==
    ApiKeyConfigured(cfg) /\ key # None /\ key # cfg.apiKey

\* the 401 test: a key is configured and the header differs from it
Unauthorized(cfg, key) == ApiKeyConfigured(cfg) /\ key # cfg.apiKey

\* AlreadyRunning, were the thinking flag not looked at
AlreadyRunning_StatusOnly(st) == st.status = StatusRunning

\* AlreadyRunning, were the status not looked at
AlreadyRunning_ThinkingOnly(st) == st.thinking

\* the 409 test: thinking || currentStatus === StatusEnum.RUNNING
AlreadyRunning(st) == st.thinking \/ st.status = StatusRunning

\* RunPatch, were the error of the run before left in place
RunPatch_KeepError(instructions, ctl) ==
    [instructions |-> instructions, abortController |-> Some(ctl),
     thinking |-> TRUE]

\* RunPatch, were the handle of the run before kept when there is one
RunPatch_ReuseHandle(instructions, ctl) ==
    [instructions |-> instructions,
     abortController |-> IF runState.abortController = None THEN Some(ctl)
                         ELSE runState.abortController,
     thinking |-> TRUE, errorMsg |-> None]

\* the partial an accepted /run writes to the store
RunPatch(instructions, ctl) ==
    [instructions |-> instructions, abortController |-> Some(ctl),
     thinking |-> TRUE, errorMsg |-> None]

\* StopPatch, were a /stop on a stopped store to put the status back to idle
StopPatch_Toggle ==
    [status |-> IF runState.status = StatusEnd THEN StatusIdle ELSE StatusEnd,
     thinking |-> FALSE]

\* StopPatch, were thinking left as it is
StopPatch_KeepThinking == [status |-> StatusEnd]

\* StopPatch, were the status left as it is
StopPatch_KeepStatus == [thinking |-> FALSE]

\* the partial /stop writes to the store
StopPatch == [status |-> StatusEnd, thinking |-> FALSE]

\* ResolvePatch, were thinking left as it is
ResolvePatch_StatusOnly == [status |-> StatusEnd]

\* the partial the .then callback of runAgent writes
ResolvePatch == [thinking |-> FALSE]

\* RejectPatch, were the status left as it is
RejectPatch_NoStatus(message) ==
    [thinking |-> FALSE, errorMsg |-> Some(message)]

\* the partial the .catch callback of runAgent writes
RejectPatch(message) ==
    [thinking |-> FALSE, status |-> StatusError, errorMsg |-> Some(message)]

HealthPayload(st) ==
    [status |-> "ok", agentStatus |-> st.status, isRunning |-> st.thinking]

\* StatusPayload, were isRunning taken from the status
StatusPayload_FromStatus(st) ==
    [status |-> st.status, instructions |-> st.instructions,
     isRunning |-> (st.status = StatusRunning), messageCount |-> st.messages]

\* messages?.length || 0, with the transcript kept as its length
StatusPayload(st) ==
    [status |-> st.status, instructions |-> st.instructions,
     isRunning |-> st.thinking, messageCount |-> st.messages]

\* Respond, were the catch block to answer as well after the try block has
Respond_Twice(r, code) == [resps EXCEPT ![r] = Append(Append(@, code), 500)]

\* sendJson on /run request r: one more status code on its response
Respond(r, code) == [resps EXCEPT ![r] = Append(@, code)]

\* /run request r is received: nothing is sent until its body has been read
Await(r) == [x \in DOMAIN resps \cup {r} |-> IF x = r THEN <<>> ELSE resps[x]]

Request(r, method, url, key, body) ==
    [Step("request") EXCEPT !.req = r, !.method = method, !.url = url,
                            !.key = key, !.body = body]

Answer(step, code, payload, effects) ==
    [step EXCEPT !.code = code, !.payload = payload, !.effects = effects]

\* Preflight, were OPTIONS handled like any other method
Preflight_Never(method) == FALSE

\* method === 'OPTIONS': the CORS preflight, answered before the key check
Preflight(method) == method = "OPTIONS"

\* Route, were the method not looked at
Route_AnyMethod(method, url) ==
    CASE url = "/health" -> "health"
      [] url = "/status" -> "status"
      [] url = "/run" -> "run"
      [] url = "/stop" -> "stop"
      [] OTHER -> "notFound"

\* the branch of handleRequest a method and a path select
Route(method, url) ==
    CASE method = "GET" /\ url = "/health" -> "health"
      [] method = "GET" /\ url = "/status" -> "status"
      [] method = "POST" /\ url = "/run" -> "run"
      [] method = "POST" /\ url = "/stop" -> "stop"
      [] OTHER -> "notFound"

\* the step before was a POST /stop that was answered 200
StopAnswered ==
    /\ last.op = "request"
    /\ last.method = "POST"
    /\ last.url = "/stop"
    /\ last.code = 200

\* handleRequest up to its return: everything but the body of a /run
handleRequest(method, url, key, body) ==
    /\ Listening
    /\ LET r == nReq + 1
           rq == Request(r, method, url, key, body)
       IN /\ nReq' = r
          /\ IF Preflight(method)
             THEN /\ UNCHANGED resps
                  /\ last' = Answer(rq, 200, NoPayload, <<"respond">>)
                  /\ UNCHANGED <<runState, aborted, pending, racing>>
             ELSE IF Unauthorized(config, key)
             THEN /\ UNCHANGED resps
                  /\ last' = Answer(rq, 401, [error |-> "Unauthorized"],
                                    <<"respond">>)
                  /\ UNCHANGED <<runState, aborted, pending, racing>>
             ELSE IF Route(method, url) = "health"
             THEN /\ UNCHANGED resps
                  /\ last' = Answer(rq, 200, HealthPayload(runState),
                                    <<"respond">>)
                  /\ UNCHANGED <<runState, aborted, pending, racing>>
             ELSE IF Route(method, url) = "status"
             THEN /\ UNCHANGED resps
                  /\ last' = Answer(rq, 200, StatusPayload(runState),
                                    <<"respond">>)
                  /\ UNCHANGED <<runState, aborted, pending, racing>>
             ELSE IF Route(method, url) = "run"
             THEN /\ pending' = pending \cup {[req |-> r, body |-> body]}
                  /\ resps' = Await(r)
                  /\ last' = Answer(rq, 0, NoPayload, <<>>)
                  /\ UNCHANGED <<runState, aborted, racing>>
             ELSE IF Route(method, url) = "stop"
             THEN LET abortController == runState.abortController
                  IN /\ runState' = setState(runState, StopPatch)
                     /\ aborted' = aborted \cup
                            {abortController[i] : i \in DOMAIN abortController}
                     /\ UNCHANGED resps
                     /\ last' = Answer([rq EXCEPT !.repeat = StopAnswered],
                            200,
                            [success |-> TRUE, message |-> "Agent stopped"],
                            IF abortController = None
                            THEN <<"setState", "respond">>
                            ELSE <<"setState", "abort", "respond">>)
                     /\ racing' = {}
                     /\ UNCHANGED pending
             ELSE /\ UNCHANGED resps
                  /\ last' = Answer(rq, 404, [error |-> "Not Found"],
                                    <<"respond">>)
                  /\ UNCHANGED <<runState, aborted, pending, racing>>
    /\ UNCHANGED <<config, server, closing, nSrv, nextCtl, runs, nCfg>>

\* the 'end' callback of a /run request: parse, validate, gate, start
onRunBodyEnd(p) ==
    /\ p \in pending
    /\ pending' = pending \ {p}
    /\ LET r == p.req
           rq == [Step("end") EXCEPT !.req = r, !.method = "POST",
                                     !.url = "/run", !.body = p.body,
                                     !.raced = (r \in racing)]
           data == JSON_parse(IF p.body = "" THEN "{}" ELSE p.body)
           instructions == data.instructions
       IN IF data.t = "SyntaxError" \/ DestructureThrows(data)
          THEN /\ resps' = Respond(r, 500)
               /\ last' = Answer(rq, 500,
                     [error |-> "Internal Server Error", message |-> data.t],
                     <<"respond">>)
               /\ racing' = racing \ {r}
               /\ UNCHANGED <<runState, nextCtl, runs>>
          ELSE IF InvalidInstructions(instructions)
          THEN /\ resps' = Respond(r, 400)
               /\ last' = Answer(rq, 400,
                     [error |-> "Bad Request",
                      message |-> "instructions is required and must be a string"],
                     <<"respond">>)
               /\ racing' = racing \ {r}
               /\ UNCHANGED <<runState, nextCtl, runs>>
          ELSE IF AlreadyRunning(runState)
          THEN /\ resps' = Respond(r, 409)
               /\ last' = Answer(rq, 409,
                     [error |-> "Conflict",
                      message |-> "Agent is already running"],
                     <<"respond">>)
               /\ racing' = racing \ {r}
               /\ UNCHANGED <<runState, nextCtl, runs>>
          ELSE /\ runState' = setState(runState,
                                       RunPatch(instructions.v, nextCtl))
               /\ nextCtl' = nextCtl + 1
               /\ runs' = Append(runs,
                     [req |-> r, ctl |-> runState'.abortController[1],
                      state |-> "running"])
               /\ resps' = Respond(r, 200)
               /\ racing' = {q.req : q \in pending \ {p}}
               /\ last' = Answer([rq EXCEPT !.run = Len(runs) + 1], 200,
                     [success |-> TRUE, message |-> "Agent started",
                      instructions |-> instructions.v],
                     <<"setState", "runAgent", "respond">>)
    /\ UNCHANGED <<config, server, closing, nSrv, aborted, nReq, nCfg>>

\* ------------------------------------------------------------ agent runner

\* runAgent at work: it writes the status and appends to the transcript
runAgentProgress(k, status, append) ==
    /\ k \in DOMAIN runs
    /\ runs[k].state = "running"
    /\ append => runState.messages < MaxMsgs
    /\ runState' = setState(runState,
            [status |-> status,
             messages |-> runState.messages + (IF append THEN 1 ELSE 0)])
    /\ last' = [Step("progress") EXCEPT !.run = k]
    /\ UNCHANGED <<config, server, closing, nSrv, aborted, nextCtl, runs,
                   pending, resps, nReq, nCfg, racing>>

\* the promise of runAgent resolves: the .then callback runs
onRunResolved(k) ==
    /\ k \in DOMAIN runs
    /\ runs[k].state = "running"
    /\ runs' = [runs EXCEPT ![k].state = "resolved"]
    /\ runState' = setState(runState, ResolvePatch)
    /\ last' = [Step("resolve") EXCEPT !.run = k, !.req = runs[k].req,
                                       !.effects = <<"setState">>]
    /\ racing' = {}
    /\ UNCHANGED <<config, server, closing, nSrv, aborted, nextCtl, pending,
                   resps, nReq, nCfg>>

\* onRunRejected, were the rejection also answered on the request as a 500
onRunRejected_Sends500(k, message) ==
    /\ k \in DOMAIN runs
    /\ runs[k].state = "running"
    /\ runs' = [runs EXCEPT ![k].state = "rejected"]
    /\ runState' = setState(runState, RejectPatch(message))
    /\ resps' = Respond(runs[k].req, 500)
    /\ last' = [Step("reject") EXCEPT !.run = k, !.req = runs[k].req,
                                      !.body = message, !.code = 500,
                                      !.effects = <<"setState", "respond">>]
    /\ racing' = {}
    /\ UNCHANGED <<config, server, closing, nSrv, aborted, nextCtl, pending,
                   nReq, nCfg>>

\* the promise of runAgent rejects: the .catch callback runs
onRunRejected(k, message) ==
    /\ k \in DOMAIN runs
    /\ runs[k].state = "running"
    /\ runs' = [runs EXCEPT ![k].state = "rejected"]
    /\ runState' = setState(runState, RejectPatch(message))
    /\ last' = [Step("reject") EXCEPT !.run = k, !.req = runs[k].req,
                                      !.body = message,
                                      !.effects = <<"setState">>]
    /\ racing' = {}
    /\ UNCHANGED <<config, server, closing, nSrv, aborted, nextCtl, pending,
                   resps, nReq, nCfg>>

\* ----------------------------------------------------------- specification

\* a body is read for POST /run alone
BodyOf(method, url, bodies) ==
    IF method = "POST" /\ url = "/run" THEN bodies ELSE {""}

\* the bodies sent where the requests vary in method, path and key
FewBodies == {"{", "{}", "{\"instructions\":\"a\"}"}

\* the runner and the callbacks the handler hangs on it; appends says
\* whether the runner's writes may add to the transcript
Runner(appends) ==
    \/ \E k \in DOMAIN runs, status \in RunnerStatuses, append \in appends :
          runAgentProgress(k, status, append)
    \/ \E k \in DOMAIN runs : onRunResolved(k)
    \/ \E k \in DOMAIN runs, message \in ErrorMessages :
          onRunRejected(k, message)

\* the whole service: configuration calls that turn the listener on and off
\* and set the key, and any request
Next ==
    \/ nCfg < MaxSetConfig /\ \E partial \in KeyPartials : setConfig(partial)
    \/ ListenOk
    \/ ListenError
    \/ /\ nReq < MaxReq
       /\ \E method \in Methods, url \in Urls, key \in HeaderKeys :
             \E body \in BodyOf(method, url, FewBodies) :
                handleRequest(method, url, key, body)
    \/ \E p \in pending : onRunBodyEnd(p)
    \/ Runner(BOOLEAN)

Spec == Init /\ [][Next]_vars

\* what the settings page sends to start the server from an untouched form:
\* the default port and host, and '' for the key
StartFromSettings ==
    [enabled |-> Some(TRUE), port |-> Some(DefaultPort),
     host |-> Some("127.0.0.1"), apiKey |-> Some(Some(""))]

\* the run/stop control plane: the listener is started once, without a key,
\* the clients send POST /run and POST /stop, and the transcript, which
\* neither reads, is left out of the runner's writes

NextRun ==
    \/ nCfg < 1 /\ setConfig(StartFromSettings)
    \/ ListenOk
    \/ /\ nReq < MaxRunReq
       /\ \E url \in {"/run", "/stop"} :
             \E body \in BodyOf("POST", url, Bodies) :
                handleRequest("POST", url, None, body)
    \/ \E p \in pending : onRunBodyEnd(p)
    \/ Runner({FALSE})

SpecRun == Init /\ [][NextRun]_vars

\* the listener's lifecycle: any setConfig, start and stop call, the listen
\* and close callbacks, and the settings page's GET /health probe
NextConfig ==
    \/ /\ nCfg < MaxCalls
       /\ \/ \E partial \in Partials : setConfig(partial)
          \/ callStart
          \/ callStop
    \/ ListenOk
    \/ ListenError
    \/ \E l \in closing : CloseDone(l)
    \/ /\ nReq < MaxProbes
       /\ \E key \in HeaderKeys : handleRequest("GET", "/health", key, "")

SpecConfig == Init /\ [][NextConfig]_vars

\* a runAgent promise settles: one of the two callbacks runs
Settle ==
    \/ \E k \in DOMAIN runs : onRunResolved(k)
    \/ \E k \in DOMAIN runs, message \in ErrorMessages :
          onRunRejected(k, message)

\* the control plane with a runner that settles every run it was given:
\* a pending promise callback is run by the event loop once the promise has
\* settled, and the runner is taken to settle, as its contract asks
NextRunFair ==
    \/ nCfg < 1 /\ setConfig(StartFromSettings)
    \/ ListenOk
    \/ /\ nReq < MaxFairReq
       /\ \E url \in {"/run", "/stop"} :
             \E body \in BodyOf("POST", url, Bodies) :
                handleRequest("POST", url, None, body)
    \/ \E p \in pending : onRunBodyEnd(p)
    \/ Runner({FALSE})

SpecRunFair == Init /\ [][NextRunFair]_vars /\ WF_vars(Settle)

\* the service is enabled with a key
StartWithKey == [NoPartial EXCEPT !.enabled = Some(TRUE),
                                  !.apiKey = Some(Some("k1"))]

\* the partials that name the key and nothing else
ReKeyPartials ==
    {p \in Partials : p.enabled = None /\ p.port = None /\ p.host = None
                         /\ p.apiKey # None}

\* the key is replaced under a listener that stays up: the service is
\* enabled with a key, setConfig then names the key alone, and the clients
\* send any request that is answered as it is received
NextKey ==
    \/ nCfg = 0 /\ setConfig(StartWithKey)
    \/ /\ nCfg > 0
       /\ nCfg < MaxReKeys + 1
       /\ \E partial \in ReKeyPartials : setConfig(partial)
    \/ ListenOk
    \/ /\ nReq < MaxKeyReq
       /\ \E method \in Methods, url \in Urls, key \in HeaderKeys :
             /\ Route(method, url) # "run"
             /\ handleRequest(method, url, key, "")

SpecKey == Init /\ [][NextKey]_vars

\* ------------------------------------------------------------------ claims

\* the runAgent invocations that have not settled
InFlight == {k \in DOMAIN runs : runs[k].state = "running"}

\* the bodies whose instructions are a non-empty string, and that string
StringInstructionBodies ==
    {"{\"instructions\":\"a\"}", "{\"instructions\":\"b\"}"}
SubmittedInstructions(body) ==
    IF body = "{\"instructions\":\"a\"}" THEN "a" ELSE "b"

\* the bodies that parse as JSON and carry no usable instructions
NoInstructionBodies ==
    {"", "null", "5", "{}", "{\"instructions\":\"\"}", "{\"instructions\":5}"}

\* this step is handleRequest on a newly received request (last' describes it)
Received == nReq' = nReq + 1

\* this step is the 'end' callback of the /run request p
BodyRead(p) == p \in pending /\ p \notin pending'

\* the request of this step passes the API key check
KeyAccepted == config.apiKey \in {None, Some("")} \/ last'.key = config.apiKey

\* this step left the store, the runs and the abort signals as they were
NothingRun ==
    /\ runState' = runState
    /\ runs' = runs
    /\ nextCtl' = nextCtl
    /\ aborted' = aborted

\* C1: at most one runAgent invocation started by /run is unsettled at a
\* time, whatever the interleaving of /run, /stop and runner settlements.
C1_AtMostOneInFlight == Cardinality(InFlight) <= 1

\* C2: thinking is true exactly when a runAgent invocation started by /run
\* is in flight, also after /stop and after an earlier run has settled.
C2_ThinkingIffInFlight == runState.thinking <=> InFlight # {}

\* C3 (amended): a /run with valid instructions whose body was still being
\* read when another /run was accepted, with no /stop and no settlement
\* since, is answered 409 and does not invoke runAgent: the check and the
\* write of thinking happen in one callback, so the race is not there.
C3_RacingRunRejected ==
    (last.op = "end" /\ last.raced /\ last.body \in StringInstructionBodies)
        => /\ last.code = 409
           /\ last.run = 0
           /\ resps[last.req] = <<409>>

C3_Witness ==
    /\ last.op = "end"
    /\ last.raced
    /\ last.body \in StringInstructionBodies
    /\ last.code = 409
    /\ runState.thinking
    /\ runState.status # StatusRunning

\* C3 (as stated): such a racing /run passes the check too, is answered 200
\* and invokes runAgent a second time.
C3_RacingRunAccepted ==
    (last.op = "end" /\ last.raced /\ last.body \in StringInstructionBodies)
        => /\ last.code = 200
           /\ last.run # 0

\* C4: a /run with valid instructions whose body read completes while
\* thinking is true or the status is RUNNING is answered 409 Conflict,
\* invokes no runAgent and leaves every RunState field as it was.
C4_ConflictLeavesState ==
    [][\A p \in pending :
          ( /\ BodyRead(p)
            /\ p.body \in StringInstructionBodies
            /\ (runState.thinking \/ runState.status = "RUNNING") )
          => /\ resps'[p.req] = <<409>>
             /\ last'.payload.error = "Conflict"
             /\ NothingRun]_vars

C4_Witness ==
    /\ last.op = "end"
    /\ last.code = 409
    /\ last.body = "{\"instructions\":\"b\"}"
    /\ runState.instructions = "a"
    /\ runState.abortController # None
    /\ InFlight # {}

\* C5: with a non-empty apiKey configured, every non-OPTIONS request whose
\* X-API-Key is absent or different is answered 401 Unauthorized and starts,
\* stops and changes nothing; with no apiKey (absent or empty), no request
\* is answered 401.
C5_Unauthorized ==
    [][ /\ ( /\ Received
             /\ last'.method # "OPTIONS"
             /\ config.apiKey \notin {None, Some("")}
             /\ last'.key # config.apiKey )
           => /\ last'.code = 401
              /\ last'.payload = [error |-> "Unauthorized"]
              /\ NothingRun
              /\ pending' = pending
              /\ resps' = resps
        /\ (config.apiKey \in {None, Some("")}) => last'.code # 401 ]_vars

C5_Witness ==
    /\ last.op = "request"
    /\ last.code = 401
    /\ last.method = "POST"
    /\ last.url = "/stop"
    /\ last.key = None
    /\ runState.thinking
    /\ runState.status # StatusEnd
    /\ runState.abortController # None
    /\ aborted = {}

\* C6 (amended): a /run with a non-empty string instructions whose body
\* read completes when thinking is false and the status is not RUNNING is
\* answered 200 {success, "Agent started", instructions}, and the store then
\* has thinking = true, errorMsg = null and the submitted instructions.
C6_AcceptedRun ==
    [][\A p \in pending :
          ( /\ BodyRead(p)
            /\ p.body \in StringInstructionBodies
            /\ ~runState.thinking
            /\ runState.status # "RUNNING" )
          => /\ resps'[p.req] = <<200>>
             /\ last'.payload =
                   [success |-> TRUE, message |-> "Agent started",
                    instructions |-> SubmittedInstructions(p.body)]
             /\ runState'.thinking
             /\ runState'.errorMsg = None
             /\ runState'.instructions = SubmittedInstructions(p.body)
             /\ Len(runs') = Len(runs) + 1]_vars

C6_Witness ==
    /\ last.op = "end"
    /\ last.code = 200
    /\ last.body = "{\"instructions\":\"b\"}"
    /\ runState.instructions = "b"
    /\ runState.thinking
    /\ runState.errorMsg = None
    /\ runState.status = StatusError
    /\ Len(runs) = 2

\* C6 (as stated): thinking = false alone is enough for the 200.
C6_AcceptedWheneverNotThinking ==
    [][\A p \in pending :
          ( /\ BodyRead(p)
            /\ p.body \in StringInstructionBodies
            /\ ~runState.thinking )
          => /\ resps'[p.req] = <<200>>
             /\ runState'.thinking
             /\ runState'.errorMsg = None
             /\ runState'.instructions = SubmittedInstructions(p.body)]_vars

\* C7: every authenticated POST /stop, whatever the RunState, sets
\* status = END and thinking = false, then signals the cancellation handle
\* stored at that moment if there is one, and is answered 200 {success};
\* the store is written before the handle is signalled.
C7_Stop ==
    [][ ( /\ Received
          /\ last'.method = "POST"
          /\ last'.url = "/stop"
          /\ KeyAccepted )
        => /\ runState' = [runState EXCEPT !.status = "END",
                                           !.thinking = FALSE]
           /\ aborted' = aborted \cup
                 {runState.abortController[i] :
                     i \in DOMAIN runState.abortController}
           /\ last'.code = 200
           /\ last'.payload.success
           /\ last'.effects =
                 IF runState.abortController = None
                 THEN <<"setState", "respond">>
                 ELSE <<"setState", "abort", "respond">>
           /\ runs' = runs ]_vars

C7_Witness ==
    /\ last.op = "request"
    /\ last.url = "/stop"
    /\ last.code = 200
    /\ runState.status = StatusEnd
    /\ ~runState.thinking
    /\ runState.errorMsg # None
    /\ runState.abortController # None
    /\ runState.abortController[1] \in aborted

\* C8: when the runAgent invocation of an accepted run resolves, thinking
\* becomes false and no other RunState field changes; when it rejects,
\* thinking becomes false, status ERROR and errorMsg the rejection's message.
C8_Settlement ==
    [][\A k \in DOMAIN runs :
          runs[k].state = "running" =>
             /\ runs'[k].state = "resolved" =>
                   runState' = [runState EXCEPT !.thinking = FALSE]
             /\ runs'[k].state = "rejected" =>
                   runState' = [runState EXCEPT !.thinking = FALSE,
                                                !.status = "ERROR",
                                                !.errorMsg = Some(last'.body)]
       ]_vars

C8_Witness ==
    /\ last.op = "reject"
    /\ last.body = "bang"
    /\ runState.errorMsg = Some("bang")
    /\ runState.status = StatusError
    /\ ~runState.thinking
    /\ runState.instructions = "b"

\* C9: the request of every accepted run has been answered 200 before the
\* run settles, and that 200 stays its one response whether the run goes on,
\* resolves or rejects: a rejection adds no 500.
C9_AcceptedAnswered200 ==
    \A k \in DOMAIN runs : resps[runs[k].req] = <<200>>

C9_Witness ==
    \E k \in DOMAIN runs :
        /\ runs[k].state = "rejected"
        /\ resps[runs[k].req] = <<200>>
        /\ runState.status = StatusError
        /\ last.op = "reject"

\* C10: a /run whose parsed JSON body has instructions missing, empty or not
\* a string (an empty body counting as {}) is answered 400 Bad Request,
\* invokes no runAgent and leaves RunState as it was, also while a run is
\* active.
C10_BadRequest ==
    [][\A p \in pending :
          (BodyRead(p) /\ p.body \in NoInstructionBodies)
          => /\ resps'[p.req] = <<400>>
             /\ last'.payload.error = "Bad Request"
             /\ NothingRun]_vars

\* the bodies that are not empty and are not JSON
MalformedBodies == {"{"}

\* C11: a /run whose non-empty body is not valid JSON is answered 500,
\* invokes no runAgent and leaves RunState as it was, whether or not a run
\* is active.
C11_MalformedJson ==
    [][\A p \in pending :
          (BodyRead(p) /\ p.body \in MalformedBodies)
          => /\ resps'[p.req] = <<500>>
             /\ last'.payload.error = "Internal Server Error"
             /\ NothingRun]_vars

C11_Witness ==
    /\ last.op = "end"
    /\ last.body \in MalformedBodies
    /\ last.code = 500
    /\ runState.thinking
    /\ InFlight # {}

\* C12: GET /health and GET /status change no RunState field; /health
\* reports agentStatus = status and isRunning = thinking, /status reports
\* status, instructions, isRunning = thinking and messageCount = the length
\* of messages, all as the store holds them when the request is handled.
C12_ReadOnlyPolls ==
    [][ ( /\ Received
          /\ last'.method = "GET"
          /\ last'.url \in {"/health", "/status"}
          /\ KeyAccepted )
        => /\ NothingRun
           /\ pending' = pending
           /\ resps' = resps
           /\ last'.code = 200
           /\ last'.url = "/health" =>
                 last'.payload = [status |-> "ok",
                                  agentStatus |-> runState.status,
                                  isRunning |-> runState.thinking]
           /\ last'.url = "/status" =>
                 last'.payload = [status |-> runState.status,
                                  instructions |-> runState.instructions,
                                  isRunning |-> runState.thinking,
                                  messageCount |-> runState.messages] ]_vars

C12_Witness ==
    /\ last.op = "request"
    /\ last.method = "GET"
    /\ last.url = "/status"
    /\ last.code = 200
    /\ last.payload.messageCount = 1
    /\ last.payload.isRunning
    /\ last.payload.status = StatusEnd
    /\ last.payload.instructions = "a"

\* C13: the cancellation handle of RunState is non-null exactly when a run
\* is in flight or the handle has been signalled by /stop; once a run has
\* settled without a /stop and no new run has been accepted, it is absent.
C13_HandleIffRunOrStopped ==
    runState.abortController # None
        <=> \/ InFlight # {}
            \/ \E c \in aborted : runState.abortController = Some(c)

\* C14: every accepted /run stores a cancellation handle that differs from
\* the handle of every earlier run and is un-signalled when runAgent is
\* invoked with it, so a /stop handled earlier does not cancel it; and a
\* /stop signals the handle the store holds at that moment and no other.
C14_FreshHandle ==
    [][ /\ Len(runs') = Len(runs) + 1 =>
              LET new == runs'[Len(runs')]
              IN /\ runState'.abortController = Some(new.ctl)
                 /\ new.ctl \notin aborted'
                 /\ \A k \in DOMAIN runs : runs[k].ctl # new.ctl
                 /\ aborted' = aborted
        /\ aborted' # aborted =>
              /\ Received
              /\ last'.url = "/stop"
              /\ runState.abortController # None
              /\ aborted' = aborted \cup {runState.abortController[1]} ]_vars

C14_Witness ==
    /\ last.op = "end"
    /\ last.code = 200
    /\ Len(runs) = 2
    /\ runs[1].ctl \in aborted
    /\ runs[2].ctl \notin aborted
    /\ runState.abortController = Some(runs[2].ctl)

\* C15: if every accepted run's runAgent invocation settles, thinking does
\* not stay true: whenever it is true it becomes false later, and it turns
\* true again only by the acceptance of a further /run, so with no further
\* acceptance it stays false.
C15_ThinkingReleased ==
    /\ runState.thinking ~> ~runState.thinking
    /\ [][(~runState.thinking /\ runState'.thinking)
             => Len(runs') = Len(runs) + 1]_vars

C15_Witness ==
    /\ last.op = "resolve"
    /\ ~runState.thinking
    /\ InFlight = {}
    /\ Len(runs) = 2
    /\ pending = {}

\* this step is a setConfig call (last'.partial is its argument)
ConfigSet == nCfg' = nCfg + 1 /\ last'.op = "setConfig"

ConfigFields == {"enabled", "port", "host", "apiKey"}

\* C16: getConfig() after setConfig(p) has p's value in every field p names
\* and the value from before the call in every other field, whatever the
\* listener does; no other step changes the configuration.
C16_ShallowMerge ==
    [][ /\ ConfigSet =>
              \A f \in ConfigFields :
                  getConfig'[f] = IF last'.partial[f] = None THEN getConfig[f]
                                  ELSE last'.partial[f][1]
        /\ ~ConfigSet => getConfig' = getConfig ]_vars

C16_Witness ==
    /\ last.op = "setConfig"
    /\ last.partial = [NoPartial EXCEPT !.port = Some(MinPort)]
    /\ getConfig.port = MinPort
    /\ getConfig.enabled
    /\ getConfig.apiKey = Some("k1")
    /\ getConfig.host = "0.0.0.0"
    /\ server # None
    /\ server[1].state = "error"

\* C17: after merging, setConfig stops the listener when a handle exists
\* and the merged configuration is disabled, starts one when no handle
\* exists and it is enabled, and otherwise leaves the handle as it is.
C17_StartStopDecision ==
    [][ ConfigSet =>
          /\ (server # None /\ ~config'.enabled) =>
                /\ server' = None
                /\ closing' = closing \cup {server[1]}
          /\ (server = None /\ config'.enabled) =>
                /\ server' = Some([id |-> nSrv + 1, host |-> config'.host,
                                   port |-> config'.port,
                                   state |-> "binding"])
                /\ closing' = closing
          /\ ((server # None) <=> config'.enabled) =>
                /\ server' = server
                /\ closing' = closing ]_vars

C17_Witness ==
    /\ last.op = "setConfig"
    /\ server = None
    /\ ~config.enabled
    /\ \E l \in closing : l.state = "listening"

\* C18: a running listener is bound to the host and port of the current
\* configuration in every reachable state: a setConfig that changes host or
\* port with enabled staying true restarts the listener.
C18_ListenerFollowsConfig ==
    (server # None /\ server[1].state = "listening")
        => /\ server[1].host = config.host
           /\ server[1].port = config.port

Served == {<<"GET", "/health">>, <<"GET", "/status">>,
           <<"POST", "/run">>, <<"POST", "/stop">>}

\* C20: a request other than OPTIONS that passes the key check and whose
\* method and path are not one of the four served pairs is answered 404
\* {error: "Not Found"} and leaves the store, the runs, the abort signals
\* and the pending bodies as they were.
C20_NotFound ==
    [][ ( /\ Received
          /\ last'.method # "OPTIONS"
          /\ KeyAccepted
          /\ <<last'.method, last'.url>> \notin Served )
        => /\ last'.code = 404
           /\ last'.payload = [error |-> "Not Found"]
           /\ NothingRun
           /\ pending' = pending
           /\ resps' = resps ]_vars

C20_Witness ==
    /\ last.op = "request"
    /\ last.method = "GET"
    /\ last.url = "/run"
    /\ last.code = 404
    /\ runState.thinking
    /\ runState.status = StatusRunning

\* C21: every OPTIONS request, for any path and any or no key, a key being
\* configured or not, is answered 200 with no body and leaves the store,
\* the runs, the abort signals and the pending bodies as they were.
C21_Preflight ==
    [][ (Received /\ last'.method = "OPTIONS")
        => /\ last'.code = 200
           /\ last'.payload = NoPayload
           /\ last'.effects = <<"respond">>
           /\ NothingRun
           /\ pending' = pending
           /\ resps' = resps ]_vars

C21_Witness ==
    /\ last.op = "request"
    /\ last.method = "OPTIONS"
    /\ last.url = "/stop"
    /\ last.key = Some("k2")
    /\ config.apiKey = Some("k1")
    /\ last.code = 200
    /\ runState.thinking
    /\ aborted = {}

\* this step is a start() call made on the service from outside setConfig
StartCalled == nCfg' = nCfg + 1 /\ last'.op = "start"

\* this step is a stop() call made on the service from outside setConfig
StopCalled == nCfg' = nCfg + 1 /\ last'.op = "stop"

\* C22: start() called while a handle exists creates no listener, binds
\* nothing again and leaves the handle and the configuration as they were;
\* start() called while the configuration is disabled creates no listener.
C22_StartIdempotent ==
    [][ StartCalled =>
          /\ config' = config
          /\ closing' = closing
          /\ server # None => (server' = server /\ nSrv' = nSrv)
          /\ ~config.enabled => (server' = server /\ nSrv' = nSrv) ]_vars

C22_Witness ==
    /\ last.op = "start"
    /\ server # None
    /\ server[1].state = "listening"
    /\ server[1].id = 1
    /\ nSrv = 1
    /\ closing = {}

\* C23: a bind failure changes neither the configuration nor the presence
\* of the handle: enabled stays true and the handle stays, with nothing
\* listening; from then on a setConfig that keeps enabled true and a
\* start() leave that handle as it is, and only a stop, through a disabling
\* setConfig or stop(), removes it.
C23_BindFailureSilent ==
    [][ /\ last'.op = "error" =>
              /\ server # None
              /\ server[1].state = "binding"
              /\ server' = Some([server[1] EXCEPT !.state = "error"])
              /\ config' = config
              /\ config'.enabled
        /\ (server # None /\ server[1].state = "error") =>
              /\ (StartCalled \/ (ConfigSet /\ config'.enabled))
                    => (server' = server /\ nSrv' = nSrv)
              /\ server' # server
                    => /\ server' = None
                       /\ StopCalled \/ (ConfigSet /\ ~config'.enabled) ]_vars

C23_Witness ==
    /\ last.op = "setConfig"
    /\ last.partial.enabled = Some(TRUE)
    /\ last.partial.port = Some(MinPort)
    /\ config.enabled
    /\ config.port = MinPort
    /\ server # None
    /\ server[1].state = "error"
    /\ server[1].port = DefaultPort
    /\ nSrv = 1

\* C27: a handle is there only while the configuration is enabled, whatever
\* setConfig, start and stop calls were made; and right after every
\* setConfig call the handle is there exactly when the configuration is
\* enabled.
C27_HandleImpliesEnabled ==
    /\ [](server # None => config.enabled)
    /\ [][ConfigSet => (server' # None <=> config'.enabled)]_vars

C27_Witness ==
    /\ last.op = "setConfig"
    /\ last.partial.enabled = None
    /\ server # None
    /\ server[1].id = 2
    /\ config.enabled
    /\ nCfg = 3

\* this step is handleRequest on a POST /stop that passes the key check
StopHandled ==
    /\ Received
    /\ last'.method = "POST"
    /\ last'.url = "/stop"
    /\ KeyAccepted

\* C24: a POST /stop handled right after another POST /stop, with no /run
\* accepted and no runner write or settlement in between, is answered 200
\* and leaves the store (status, thinking, instructions, errorMsg, messages,
\* handle), the set of signalled handles and the runs as the first left them.
C24_StopIdempotent ==
    [][ ( /\ last.op = "request"
          /\ last.method = "POST"
          /\ last.url = "/stop"
          /\ last.code = 200
          /\ StopHandled )
        => /\ last'.code = 200
           /\ runState' = runState
           /\ aborted' = aborted
           /\ runs' = runs
           /\ nextCtl' = nextCtl ]_vars

C24_Witness ==
    /\ last.op = "request"
    /\ last.url = "/stop"
    /\ last.repeat
    /\ last.code = 200
    /\ runState.instructions = "a"
    /\ runState.status = StatusEnd
    /\ ~runState.thinking
    /\ runState.abortController # None
    /\ aborted = {runState.abortController[1]}
    /\ InFlight # {}

\* C25: a settlement touches only its own run: when the run that settles
\* has been stopped and a later run, accepted since, is still in flight, the
\* settlement leaves thinking, status and errorMsg as they were.
C25_SettlementOwnRunOnly ==
    [][ \A k \in DOMAIN runs :
          ( /\ runs[k].state = "running"
            /\ runs'[k].state # "running"
            /\ runs[k].ctl \in aborted
            /\ \E j \in DOMAIN runs : j > k /\ runs[j].state = "running" )
          => /\ runState'.thinking = runState.thinking
             /\ runState'.status = runState.status
             /\ runState'.errorMsg = runState.errorMsg ]_vars

\* C26: /stop re-opens the admission gate: every authorised POST /stop
\* leaves thinking false and the status END, receiving a further request
\* other than /stop does not touch the store, and a /run with string
\* instructions whose body read completes on the store as /stop left it,
\* or right after the /stop, is accepted with 200, whether or not the
\* stopped invocation has settled.
C26_StopReopensGate ==
    [][ /\ StopHandled
           => (~runState'.thinking /\ runState'.status = "END")
        /\ (Received /\ ~StopHandled) => runState' = runState
        /\ \A p \in pending :
              ( /\ BodyRead(p)
                /\ p.body \in StringInstructionBodies
                /\ \/ /\ last.op = "request"
                      /\ last.method = "POST"
                      /\ last.url = "/stop"
                      /\ last.code = 200
                   \/ (~runState.thinking /\ runState.status = "END") )
              => /\ resps'[p.req] = <<200>>
                 /\ last'.code = 200
                 /\ last'.payload.success
                 /\ runState'.thinking
                 /\ runState'.instructions = SubmittedInstructions(p.body)
                 /\ Len(runs') = Len(runs) + 1 ]_vars

C26_Witness ==
    /\ last.op = "end"
    /\ last.code = 200
    /\ Len(runs) = 2
    /\ last.run = 2
    /\ runs[1].state = "running"
    /\ runs[1].ctl \in aborted
    /\ runState.status = StatusEnd
    /\ runState.thinking
    /\ runState.instructions = "b"

\* the /run requests whose body is still being read
Reading == {p.req : p \in pending}

\* how many times a step wrote a response
Responses(step) ==
    Cardinality({i \in DOMAIN step.effects : step.effects[i] = "respond"})

\* this step is handleRequest on a POST /run that passes the key check
RunReceived ==
    /\ Received
    /\ last'.method = "POST"
    /\ last'.url = "/run"
    /\ KeyAccepted

\* C28: every request is answered exactly once, with a status among 200,
\* 400, 401, 404, 409 and 500: a request other than an authorised POST /run
\* is answered in the step that receives it; an authorised POST /run is
\* answered by nothing while its body is being read and by one response
\* when the read completes; no other step, a settlement included, writes
\* to a response.
C28_OneResponse ==
    /\ [](\A r \in DOMAIN resps :
             IF r \in Reading THEN resps[r] = <<>>
             ELSE /\ Len(resps[r]) = 1
                  /\ resps[r][1] \in {200, 400, 409, 500})
    /\ [][ /\ (Received /\ ~RunReceived) =>
                 /\ Responses(last') = 1
                 /\ last'.code \in {200, 401, 404}
                 /\ resps' = resps
                 /\ pending' = pending
           /\ RunReceived =>
                 /\ Responses(last') = 0
                 /\ last'.req \in Reading'
                 /\ resps'[last'.req] = <<>>
           /\ \A p \in pending : BodyRead(p) =>
                 /\ Responses(last') = 1
                 /\ last'.code \in {200, 400, 409, 500}
                 /\ resps'[p.req] = <<last'.code>>
           /\ (~Received /\ pending' = pending) =>
                 /\ resps' = resps
                 /\ Responses(last') = 0 ]_vars

C28_Witness ==
    /\ last.op = "reject"
    /\ pending = {}
    /\ DOMAIN resps = {1, 2}
    /\ resps[1] = <<200>>
    /\ resps[2] = <<409>>
    /\ runs[1].state = "rejected"

\* C29: the key check reads the apiKey of the configuration as it is when
\* the request is handled: a setConfig that names apiKey writes it and
\* leaves a listener that stays enabled in place, and the request handled
\* right after setConfig({apiKey: k}), k not empty, is answered 401 when it
\* carries another key (the previous one included) and passes the check
\* when it carries k.
C29_KeyChangeTakesEffect ==
    [][ /\ (Received /\ last'.method # "OPTIONS") =>
              (last'.code = 401 <=>
                  /\ config.apiKey \notin {None, Some("")}
                  /\ last'.key # config.apiKey)
        /\ (ConfigSet /\ last'.partial.apiKey # None) =>
              /\ config'.apiKey = last'.partial.apiKey[1]
              /\ (server # None /\ config'.enabled)
                    => (server' = server /\ nSrv' = nSrv)
        /\ \A k \in Keys :
              ( /\ last.op = "setConfig"
                /\ last.partial.apiKey = Some(Some(k))
                /\ Received
                /\ last'.method # "OPTIONS" )
              => (last'.code = 401 <=> last'.key # Some(k)) ]_vars

C29_Witness ==
    /\ last.op = "request"
    /\ last.method = "GET"
    /\ last.url = "/status"
    /\ last.key = Some("k1")
    /\ last.code = 401
    /\ config.apiKey = Some("k2")
    /\ server # None
    /\ server[1].id = 1
    /\ nSrv = 1
    /\ nCfg = 2
    /\ nReq = 2

====
